---- MODULE Spec2Model ----
(***************************************************************************)
(* Veritas: grounding engine (lib/levenshtein.py), the answer_question     *)
(* pipeline (veritas.py) and the BM25+ page ranker (lib/bm25.py) with its  *)
(* use by VeritasCrewBuilder.build (lib/agents.py).                        *)
(*                                                                         *)
(* A Python str is a sequence of one-character strings.  A float in [0,1]  *)
(* produced by levenshtein_ratio is the exact fraction <<num, den>> with   *)
(* den > 0; all comparisons are made by cross multiplication.  None is the *)
(* one-element sequence <<"None">>, which is no Python str of the model    *)
(* because its element is not a single character.                          *)
(***************************************************************************)
EXTENDS Integers, Sequences, FiniteSets, TLC

VARIABLES
    call,               \* which entry point is exercised
    response,           \* align_response argument: generated text
    source_sentences,   \* align_response argument: source sentences
    threshold,          \* align_response argument: primary threshold
    nltk_ok,            \* whether nltk's sent_tokenize is usable
    alignment_results,  \* list of alignment records
    pc,                 \* position of the caller
    factual_answer,     \* result of build_factual_response
    selected_pages_indices, \* answer_question: pages kept by the selector
    selected_sentences, \* answer_question: sentences kept by the filter
    raw_answer,         \* answer_question: text of the generator
    result,             \* answer_question: the dictionary returned
    in_s1,              \* levenshtein_distance / _ratio: first argument
    in_s2,              \* levenshtein_distance / _ratio: second argument
    out_distance,       \* value returned by levenshtein_distance
    out_ratio,          \* value returned by levenshtein_ratio
    corpus_terms,       \* BM25Ranker.corpus_terms
    doc_freqs,          \* BM25Ranker.doc_freqs
    idf,                \* BM25Ranker.idf
    doc_lens,           \* BM25Ranker.doc_lens
    avg_doc_len,        \* BM25Ranker.avg_doc_len
    total_docs,         \* BM25Ranker.total_docs
    in_pages,           \* rank_pages / fit / build: the page texts
    in_query,           \* rank_pages / build: the query
    in_top_k,           \* rank_pages: top_k; build: config.BM25_TOP_K
    out_scores,         \* rank_pages: the scores of the pages
    out_ranked,         \* the list of page indices returned
    out_query_terms,    \* rank_pages: the list query_terms after the expansion
    out_expanded        \* rank_pages: the list expanded_query_terms

libVars == <<call, response, source_sentences, threshold, nltk_ok,
             alignment_results, factual_answer>>

alignVars == <<response, source_sentences, threshold, nltk_ok,
               alignment_results, factual_answer>>

pipeVars == <<selected_pages_indices, selected_sentences, raw_answer, result>>

levVars == <<in_s1, in_s2, out_distance, out_ratio>>

rankerVars == <<corpus_terms, doc_freqs, idf, doc_lens, avg_doc_len,
                total_docs>>

rankVars == <<corpus_terms, doc_freqs, idf, doc_lens, avg_doc_len,
              total_docs, in_pages, in_query, in_top_k,
              out_scores, out_ranked, out_query_terms, out_expanded>>

vars == <<call, response, source_sentences, threshold, nltk_ok,
          alignment_results, pc, factual_answer, selected_pages_indices,
          selected_sentences, raw_answer, result, in_s1, in_s2,
          out_distance, out_ratio,
          corpus_terms, doc_freqs, idf, doc_lens, avg_doc_len, total_docs,
          in_pages, in_query, in_top_k, out_scores, out_ranked,
          out_query_terms, out_expanded>>

----------------------------------------------------------------------------
(* Values *)

None == <<"None">>

\* the None of an Optional[int], whose int k is <<k>>
NoneInt == <<>>

Truthy(s) == s # None /\ Len(s) > 0

\* fractions
Frac(n, d) == <<n, d>>

FGeq(x, y) == x[1] * y[2] >= y[1] * x[2]

FGt(x, y) == x[1] * y[2] > y[1] * x[2]

FEq(x, y) == x[1] * y[2] = y[1] * x[2]

Zero == Frac(0, 1)

One == Frac(1, 1)

----------------------------------------------------------------------------------------------------------------------------------------
(* Loops *)

\* Rest applied to first once first is a computed value
Then(first, Rest(_)) == IF first = first THEN Rest(first) ELSE first

\* for i in range(lo, hi + 1): st = Body(st, i).  The range is run as its
\* two halves, one after the other, so that the evaluation depth stays
\* logarithmic in the number of iterations; the iterations and their order
\* are those of the loop.
RECURSIVE ForRange(_, _, _, _)
ForRange(Body(_, _), st, lo, hi) ==
    IF lo > hi THEN st
    ELSE IF lo = hi THEN Body(st, lo)
    ELSE LET After(half) == ForRange(Body, half, ((lo + hi) \div 2) + 1, hi)
         IN Then(ForRange(Body, st, lo, (lo + hi) \div 2), After)

----------------------------------------------------------------------------
(* levenshtein_distance, levenshtein_ratio *)

Min2(a, b) == IF a <= b THEN a ELSE b

\* the least of deletion and insertion
Min3NoSubstitution(a, b, c) == Min2(a, b)

\* the least of deletion and substitution
Min3NoInsertion(a, b, c) == Min2(a, c)

Min3(a, b, c) == Min2(a, Min2(b, c))

\* the length of the first string
Max2First(a, b) == a

Max2(a, b) == IF a >= b THEN a ELSE b

levenshtein_distance(s1, s2) ==
    IF s1 = s2 THEN 0
    ELSE IF Len(s1) = 0 THEN Len(s2)
    ELSE IF Len(s2) = 0 THEN Len(s1)
    ELSE LET \* one pass of the outer loop: fills current_row from
             \* previous_row; the swap makes it the next previous_row
             Row(previous_row, i) ==
                 LET \* current_row holds current_row[0..j-1]
                     Cell(current_row, j) ==
                         LET deletion == previous_row[j + 1] + 1
                             insertion == current_row[j] + 1
                             substitution ==
                                 previous_row[j]
                                     + (IF s1[i] = s2[j] THEN 0 ELSE 1)
                         IN Append(current_row,
                                   Min3(deletion, insertion, substitution))
                 IN ForRange(Cell, <<i>>, 1, Len(s2))
         IN ForRange(Row, [j \in 1..(Len(s2) + 1) |-> j - 1], 1, Len(s1))
                [Len(s2) + 1]

levenshtein_ratio(s1, s2) ==
    LET distance == levenshtein_distance(s1, s2)
        max_len == Max2(Len(s1), Len(s2))
    IN IF max_len = 0 THEN One
       ELSE Frac(max_len - distance, max_len)

----------------------------------------------------------------------------
(* find_closest_text *)

\* np.argmax: 0-based index of the first maximal element
ArgMax(xs) ==
    (CHOOSE i \in 1..Len(xs) :
        /\ \A j \in 1..Len(xs) : FGeq(xs[i], xs[j])
        /\ \A j \in 1..(i - 1) : FGt(xs[i], xs[j])) - 1

\* [levenshtein_ratio(text, candidate) for candidate in candidates]
Scores(text, candidates) ==
    LET Score(acc, i) == Append(acc, levenshtein_ratio(text, candidates[i]))
    IN ForRange(Score, <<>>, 1, Len(candidates))

\* the return statements with a strict comparison against the threshold
ThresholdTestStrict(max_score_idx, max_score, thr) ==
    IF FGt(max_score, thr) THEN <<max_score_idx, max_score>>
    ELSE <<-1, max_score>>

\* if max_score >= threshold: return max_score_idx, max_score
\* else: return -1, max_score
ThresholdTest(max_score_idx, max_score, thr) ==
    IF FGeq(max_score, thr) THEN <<max_score_idx, max_score>>
    ELSE <<-1, max_score>>

\* max_score = scores[max_score_idx]
MaxScore(scores, max_score_idx, thr) ==
    ThresholdTest(max_score_idx, scores[max_score_idx + 1], thr)

\* max_score_idx = np.argmax(scores)
MaxScoreIdx(scores, thr) == MaxScore(scores, ArgMax(scores), thr)

find_closest_text(text, candidates, thr) ==
    IF Len(candidates) = 0 THEN <<-1, Zero>>
    ELSE MaxScoreIdx(Scores(text, candidates), thr)

----------------------------------------------------------------------------
(* clean_text *)

BS == "\\"

Whitespace == {" ", "\t", "\n", "\r", "\f"}

Punctuation == {",", ".", ";", ":", "!", "?", ")"}

HexDigits == {"0", "1", "2", "3", "4", "5", "6", "7", "8", "9",
              "a", "b", "c", "d", "e", "f", "A", "B", "C", "D", "E", "F"}

\* the replacements dictionary, in insertion order; an accented character is
\* written as a named token standing for that one character
replacements ==
    << <<(<<BS, "n">>), (<<" ">>)>>,
       <<(<<BS, "t">>), (<<" ">>)>>,
       <<(<<BS, "r">>), (<<>>)>>,
       <<(<<BS, "\"">>), (<<"\"">>)>>,
       <<(<<BS, "'">>), (<<"'">>)>>,
       <<(<<BS, BS>>), (<<BS>>)>>,
       <<(<<BS, "u", "0", "0", "e", "9">>), (<<"e_acute">>)>>,
       <<(<<BS, "u", "0", "0", "e", "8">>), (<<"e_grave">>)>>,
       <<(<<BS, "u", "0", "0", "e", "a">>), (<<"e_circ">>)>>,
       <<(<<BS, "u", "0", "0", "e", "0">>), (<<"a_grave">>)>>,
       <<(<<BS, "u", "0", "0", "e", "2">>), (<<"a_circ">>)>>,
       <<(<<BS, "u", "0", "0", "e", "7">>), (<<"c_cedil">>)>>,
       <<(<<BS, "u", "0", "0", "f", "4">>), (<<"o_circ">>)>>,
       <<(<<BS, "u", "0", "0", "f", "b">>), (<<"u_circ">>)>>,
       <<(<<BS, "u", "0", "0", "e", "e">>), (<<"i_circ">>)>>,
       <<(<<BS, "u", "0", "0", "e", "f">>), (<<"i_uml">>)>>,
       <<(<<BS, "u", "0", "0", "f", "c">>), (<<"u_uml">>)>>,
       <<(<<BS, "u", "0", "1", "5", "3">>), (<<"oe">>)>>,
       <<(<<BS, "u", "2", "0", "1", "9">>), (<<"'">>)>>,
       <<(<<BS, "u", "2", "0", "2", "6">>), (<<".", ".", ".">>)>> >>

\* whether pat occurs in t at index i
OccursAt(pat, t, i) ==
    i + Len(pat) - 1 <= Len(t) /\ SubSeq(t, i, i + Len(pat) - 1) = pat

\* str.replace(esc, char): every non-overlapping occurrence, left to right;
\* skip counts the characters of the current occurrence still to pass.  A
\* text without occurrence is returned as it is.
ReplaceAll(t, esc, char) ==
    LET Scan(st, i) ==
            IF st.skip > 0 THEN [out |-> st.out, skip |-> st.skip - 1]
            ELSE IF OccursAt(esc, t, i)
                 THEN [out |-> st.out \o char, skip |-> Len(esc) - 1]
                 ELSE [out |-> Append(st.out, t[i]), skip |-> 0]
    IN IF \A i \in 1..Len(t) : t[i] # esc[1] THEN t
       ELSE ForRange(Scan, [out |-> <<>>, skip |-> 0], 1, Len(t)).out

\* for esc, char in replacements.items(): text = text.replace(esc, char)
ApplyReplacements(text) ==
    LET Apply(t, k) == ReplaceAll(t, replacements[k][1], replacements[k][2])
    IN ForRange(Apply, text, 1, Len(replacements))

\* re.sub(r'\\u[0-9a-fA-F]{4}', '', text)
RemoveUnicodeEscapes(t) ==
    LET Scan(st, i) ==
            IF st.skip > 0 THEN [out |-> st.out, skip |-> st.skip - 1]
            ELSE IF /\ i + 5 <= Len(t)
                    /\ t[i] = BS
                    /\ t[i + 1] = "u"
                    /\ \A k \in (i + 2)..(i + 5) : t[k] \in HexDigits
                 THEN [out |-> st.out, skip |-> 5]
                 ELSE [out |-> Append(st.out, t[i]), skip |-> 0]
    IN ForRange(Scan, [out |-> <<>>, skip |-> 0], 1, Len(t)).out

\* re.sub(r'\s+', ' ', text)
CollapseSpaces(t) ==
    LET Scan(out, i) ==
            IF t[i] \notin Whitespace THEN Append(out, t[i])
            ELSE IF i > 1 /\ t[i - 1] \in Whitespace THEN out
            ELSE Append(out, " ")
    IN ForRange(Scan, <<>>, 1, Len(t))

\* t[i] starts or continues a whitespace run that ends right before a
\* punctuation mark
BeforePunct(t, i) ==
    \E k \in (i + 1)..Len(t) :
        /\ t[k] \in Punctuation
        /\ \A m \in i..(k - 1) : t[m] \in Whitespace

\* re.sub(r'\s+([,.;:!?)])', r'\1', text)
RemoveSpaceBeforePunct(t) ==
    LET Scan(out, i) == IF BeforePunct(t, i) THEN out ELSE Append(out, t[i])
    IN ForRange(Scan, <<>>, 1, Len(t))

\* re.sub(r'([,.;:!?)])(?!\s|$)', r'\1 ', text)
AddSpaceAfterPunct(t) ==
    LET Scan(out, i) ==
            IF t[i] \in Punctuation /\ i < Len(t) /\ t[i + 1] \notin Whitespace
            THEN out \o <<t[i], " ">>
            ELSE Append(out, t[i])
    IN ForRange(Scan, <<>>, 1, Len(t))

\* str.strip()
Strip(t) ==
    LET solid == {i \in 1..Len(t) : t[i] \notin Whitespace}
    IN IF solid = {} THEN <<>>
       ELSE SubSeq(t, CHOOSE i \in solid : \A k \in solid : i <= k,
                      CHOOSE i \in solid : \A k \in solid : i >= k)

clean_text(text) ==
    Strip(AddSpaceAfterPunct(RemoveSpaceBeforePunct(CollapseSpaces(
        RemoveUnicodeEscapes(ApplyReplacements(text))))))

----------------------------------------------------------------------------
(* align_response *)

MinSentenceLen == 10

\* a fallback that keeps the closest source whatever its ratio
FallbackThresholdZero == Zero

FallbackThresholdHalf == Frac(5, 10)

FallbackThreshold == Frac(4, 10)

SentenceEnd == {".", "!", "?"}

\* nltk.tokenize.sent_tokenize (library): a sentence ends at a terminator
\* that is followed by whitespace; the terminator stays with its sentence
\* and the whitespace between two sentences is dropped
sent_tokenize(t) ==
    LET Scan(st, i) ==
            IF st.gap /\ t[i] \in Whitespace THEN st
            ELSE IF /\ t[i] \in SentenceEnd
                    /\ i < Len(t)
                    /\ t[i + 1] \in Whitespace
                 THEN [sents |-> Append(st.sents, Append(st.cur, t[i])),
                       cur |-> <<>>, gap |-> TRUE]
                 ELSE [sents |-> st.sents, cur |-> Append(st.cur, t[i]),
                       gap |-> FALSE]
        end == ForRange(Scan, [sents |-> <<>>, cur |-> <<>>, gap |-> TRUE],
                        1, Len(t))
    IN IF Len(end.cur) = 0 THEN end.sents ELSE Append(end.sents, end.cur)

\* str.split(ch)
SplitOn(t, ch) ==
    LET Scan(st, i) ==
            IF t[i] = ch
            THEN [parts |-> Append(st.parts, st.cur), cur |-> <<>>]
            ELSE [parts |-> st.parts, cur |-> Append(st.cur, t[i])]
        end == ForRange(Scan, [parts |-> <<>>, cur |-> <<>>], 1, Len(t))
    IN Append(end.parts, end.cur)

LongEnough(s) == Len(Strip(s)) > MinSentenceLen

\* [s.strip() for s in xs if len(s.strip()) > 10]
StripAndFilter(xs) ==
    LET kept == SelectSeq(xs, LongEnough)
    IN [k \in 1..Len(kept) |-> Strip(kept[k])]

\* the sentences of the cleaned response; without a usable nltk the except
\* branch splits on '.'
SplitSentences(cleaned, nltk) ==
    StripAndFilter(IF nltk THEN sent_tokenize(cleaned)
                   ELSE StripAndFilter(SplitOn(cleaned, ".")))

\* the fallback scan: the first index of the greatest ratio above 0
BestMatch(resp_sent, sources) ==
    LET Try(best, i) ==
            LET current_score == levenshtein_ratio(resp_sent, sources[i + 1])
            IN IF FGt(current_score, best[2]) THEN <<i, current_score>>
               ELSE best
    IN ForRange(Try, <<-1, Zero>>, 0, Len(sources) - 1)

\* the call of find_closest_text at the head of the loop body
ClosestSourceDefaultThreshold(resp_sent, sources, thr) ==
    find_closest_text(resp_sent, sources, Frac(85, 100))

ClosestSource(resp_sent, sources, thr) ==
    find_closest_text(resp_sent, sources, thr)

\* the three dictionaries the loop body appends
AlignedRecord(resp_sent, src, score) ==
    [generated |-> resp_sent, source |-> src, similarity |-> score,
     aligned |-> TRUE]

NearRecordMarkedAligned(resp_sent, src, best_score) ==
    [generated |-> resp_sent, source |-> src, similarity |-> best_score,
     aligned |-> TRUE]

NearRecord(resp_sent, src, best_score) ==
    [generated |-> resp_sent, source |-> src, similarity |-> best_score,
     aligned |-> FALSE]

NoSourceRecordZeroScore(resp_sent, best_idx, best_score) ==
    [generated |-> resp_sent, source |-> None, similarity |-> Zero,
     aligned |-> FALSE]

NoSourceRecord(resp_sent, best_idx, best_score) ==
    [generated |-> resp_sent, source |-> None,
     similarity |-> IF best_idx >= 0 THEN best_score ELSE Zero,
     aligned |-> FALSE]

\* the else branch of the loop body, best being (best_idx, best_score)
\* after the fallback scan
FallbackRecord(resp_sent, sources, best) ==
    IF best[1] >= 0 /\ FGeq(best[2], FallbackThreshold)
    THEN NearRecord(resp_sent, sources[best[1] + 1], best[2])
    ELSE NoSourceRecord(resp_sent, best[1], best[2])

\* the loop body after find_closest_text returned found = (idx, score)
LoopRecord(resp_sent, sources, found) ==
    IF found[1] >= 0
    THEN AlignedRecord(resp_sent, sources[found[1] + 1], found[2])
    ELSE FallbackRecord(resp_sent, sources, BestMatch(resp_sent, sources))

\* body of the loop over response_sentences
AlignSentence(resp_sent, sources, thr) ==
    LoopRecord(resp_sent, sources, ClosestSource(resp_sent, sources, thr))

\* the loop over response_sentences
AlignSentences(response_sentences, sources, thr) ==
    LET Align(results, k) ==
            Append(results, AlignSentence(response_sentences[k], sources, thr))
    IN ForRange(Align, <<>>, 1, Len(response_sentences))

\* align_response without the test of source_sentences in its first line
AlignResponseNoSourceTest(resp, sources, thr, nltk) ==
    IF Len(resp) = 0 THEN <<>>
    ELSE AlignSentences(SplitSentences(clean_text(resp), nltk), sources, thr)

align_response(resp, sources, thr, nltk) ==
    IF Len(resp) = 0 \/ Len(sources) = 0 THEN <<>>
    ELSE AlignSentences(SplitSentences(clean_text(resp), nltk), sources, thr)

----------------------------------------------------------------------------
(* build_factual_response *)

BestMatchFloorTenth == Frac(1, 10)

BestMatchFloor == Frac(3, 10)

MaxBestMatches == 5

Refusal ==
    <<"I","m","p","o","s","s","i","b","l","e"," ","d","e"," ","r","e_acute",
      "p","o","n","d","r","e"," ","a_grave"," ","c","e","t","t","e"," ","q",
      "u","e","s","t","i","o","n"," ","e","n"," ","s","e"," ","b","a","s",
      "a","n","t"," ","u","n","i","q","u","e","m","e","n","t"," ","s","u",
      "r"," ","l","e"," ","d","o","c","u","m","e","n","t"," ","f","o","u",
      "r","n","i",".">>

\* ". ".join(parts) + "."
JoinParts(parts) ==
    LET Add(out, k) ==
            IF k = 1 THEN parts[k] ELSE out \o <<".", " ">> \o parts[k]
    IN ForRange(Add, <<>>, 1, Len(parts)) \o <<".">>

\* the sort without reverse=True: stable, ascending
SortAsc(matches) ==
    LET Insert(sorted, k) ==
            LET n == Cardinality({i \in 1..Len(sorted) :
                                     FGeq(matches[k][2], sorted[i][2])})
            IN SubSeq(sorted, 1, n) \o <<matches[k]>>
                   \o SubSeq(sorted, n + 1, Len(sorted))
    IN ForRange(Insert, <<>>, 1, Len(matches))

\* list.sort(key=similarity, reverse=True): stable, descending; a match goes
\* behind every match already placed whose similarity is not smaller
SortDesc(matches) ==
    LET Insert(sorted, k) ==
            LET n == Cardinality({i \in 1..Len(sorted) :
                                     FGeq(sorted[i][2], matches[k][2])})
            IN SubSeq(sorted, 1, n) \o <<matches[k]>>
                   \o SubSeq(sorted, n + 1, Len(sorted))
    IN ForRange(Insert, <<>>, 1, Len(matches))

\* the filter of aligned_parts without the test of 'aligned'
AnyPartWithSource(r) == Truthy(r.source)

IsAlignedPart(r) == r.aligned /\ Truthy(r.source)

IsBestMatch(r) == Truthy(r.source) /\ FGeq(r.similarity, BestMatchFloor)

\* the comprehension taking the generated text in place of the source
GeneratedTexts(rs) == [k \in 1..Len(rs) |-> rs[k].generated]

Sources(rs) == [k \in 1..Len(rs) |-> rs[k].source]

\* best_matches after the sort, cut to the first five
BestMatches(results) ==
    LET cands == SelectSeq(results, IsBestMatch)
        best_matches == SortDesc(
            [k \in 1..Len(cands) |-> <<cands[k].source, cands[k].similarity>>])
        top == SubSeq(best_matches, 1, Min2(MaxBestMatches, Len(best_matches)))
    IN [k \in 1..Len(top) |-> top[k][1]]

build_factual_response(results) ==
    LET aligned_first == Sources(SelectSeq(results, IsAlignedPart))
        aligned_parts == IF Len(aligned_first) = 0 THEN BestMatches(results)
                         ELSE aligned_first
    IN IF Len(aligned_parts) = 0 THEN Refusal
       ELSE JoinParts(aligned_parts)

----------------
(* Inputs of the library calls *)

MaxSources == 2

MaxResponseSentences == 2

MaxRecords == 7

SeqsUpTo(S, n) == UNION {[1..k -> S] : k \in 0..n}

Range(xs) == {xs[k] : k \in 1..Len(xs)}

SrcExact ==
    <<"a","a","a","a"," ","b","b","b","b"," ","c","c",".">>

SrcMid ==
    <<"a","a","a","a"," ","c","c","c","c"," ","b","b",".">>

SrcDisjoint ==
    <<"n","n","n","n","n","n","n","n","n","n","n">>

GenMessy ==
    <<"a","a","a","a"," "," ","c","c","c","c"," ","b","b"," ",".">>

GenEscaped ==
    <<"c","c","b","b"," ","c","a","c","b","\\","n","a","b",".">>

GenWeak ==
    <<"n","b","c","b","c","b","c","b","c","b","c",".">>

GenShort ==
    <<"a","b","c",".">>

SourcePool == {SrcExact, SrcMid, SrcDisjoint, <<>>}

\* the pieces of a generated text.  Every sentence is aligned on its own, so
\* the texts are the runs of consecutive pieces of this ring.
ResponsePieces == <<SrcExact, GenWeak, GenEscaped, GenMessy, GenShort>>

Run(first, n) ==
    [j \in 1..n |->
        ResponsePieces[((first + j - 2) % Len(ResponsePieces)) + 1]]

JoinRaw(ps) ==
    LET Add(out, k) == IF k = 1 THEN ps[k] ELSE out \o <<" ">> \o ps[k]
    IN ForRange(Add, <<>>, 1, Len(ps))

ResponseTexts ==
    {JoinRaw(Run(first, n)) :
        first \in 1..Len(ResponsePieces), n \in 0..MaxResponseSentences}

SourceLists == SeqsUpTo(SourcePool, MaxSources)

DefaultThreshold == Frac(70, 100)

Thresholds == {Zero, Frac(2, 10), DefaultThreshold, One}

\* records handed to build_factual_response by a caller; the k-th record
\* carries its own source and generated text
Digit(k) == <<"0", "1", "2", "3", "4", "5", "6", "7", "8", "9">>[k + 1]

RecordKinds == {"aligned", "sourced", "none"}

MakeRecord(kind, k) ==
    [generated |-> <<"g", Digit(k)>>,
     source |-> IF kind = "none" THEN None ELSE <<"s", Digit(k)>>,
     similarity |-> CASE kind = "aligned" -> Frac(7 + (k % 3), 10)
                      [] kind = "sourced" -> Frac(2 + ((2 * k) % 5), 10)
                      [] OTHER -> Frac(1, 10),
     aligned |-> (kind = "aligned")]

DirectRecordLists ==
    {[k \in 1..Len(ks) |-> MakeRecord(ks[k], k)] :
        ks \in SeqsUpTo(RecordKinds, MaxRecords)}

----------------------------------------------------------------------------
(* Calls of align_response and build_factual_response *)

NoResult ==
    [question |-> <<>>, answer |-> <<>>, raw_answer |-> <<>>,
     source_sentences |-> <<>>, alignment_details |-> <<>>,
     source_pages |-> <<>>]

\* no call of levenshtein_distance or levenshtein_ratio was made
NoDistanceCall ==
    /\ in_s1 = <<>>
    /\ in_s2 = <<>>
    /\ out_distance = 0
    /\ out_ratio = One

\* BM25Ranker.__init__: the fields of a new ranker
NewRanker ==
    /\ corpus_terms = {}
    /\ doc_freqs = <<>>
    /\ idf = <<>>
    /\ doc_lens = <<>>
    /\ avg_doc_len = Zero
    /\ total_docs = 0

\* no call of the ranker was made
NoRankCall ==
    /\ in_pages = <<>>
    /\ in_query = <<>>
    /\ in_top_k = NoneInt
    /\ out_scores = <<>>
    /\ out_ranked = <<>>
    /\ out_query_terms = <<>>
    /\ out_expanded = <<>>

InitAlign ==
    /\ NoDistanceCall
    /\ NewRanker
    /\ NoRankCall
    /\ nltk_ok \in BOOLEAN
    /\ factual_answer = <<>>
    /\ selected_pages_indices = <<>>
    /\ selected_sentences = <<>>
    /\ raw_answer = <<>>
    /\ result = NoResult
    /\ \/ /\ call = "align"
          /\ pc = "ready"
          /\ response \in ResponseTexts
          /\ source_sentences \in SourceLists
          /\ threshold \in Thresholds
          /\ alignment_results = <<>>
       \/ /\ call = "build"
          /\ pc = "aligned"
          /\ response = <<>>
          /\ source_sentences = <<>>
          /\ threshold = DefaultThreshold
          /\ alignment_results \in DirectRecordLists
          /\ nltk_ok

CallAlign ==
    /\ pc = "ready"
    /\ alignment_results' =
           align_response(response, source_sentences, threshold, nltk_ok)
    /\ pc' = "aligned"
    /\ UNCHANGED <<call, response, source_sentences, threshold, nltk_ok,
                   factual_answer, pipeVars, levVars, rankVars>>

CallBuild ==
    /\ pc = "aligned"
    /\ factual_answer' = build_factual_response(alignment_results)
    /\ pc' = "built"
    /\ UNCHANGED <<call, response, source_sentences, threshold, nltk_ok,
                   alignment_results, pipeVars, levVars, rankVars>>

NextAlign == CallAlign \/ CallBuild

SpecAlign == InitAlign /\ [][NextAlign]_vars

----------------------------------------------------------------------------------------------------------------------------------------
(* Calls of levenshtein_distance and levenshtein_ratio on their own *)

MaxLen == 3

\* two letters and a capital: the comparison of characters is case-sensitive
Alphabet == {"a", "b", "A"}

Strings == SeqsUpTo(Alphabet, MaxLen)

\* no call of align_response or build_factual_response was made
NoAlignCall ==
    /\ response = <<>>
    /\ source_sentences = <<>>
    /\ threshold = DefaultThreshold
    /\ nltk_ok = TRUE
    /\ alignment_results = <<>>
    /\ factual_answer = <<>>

\* no call of answer_question was made
NoPipelineCall ==
    /\ selected_pages_indices = <<>>
    /\ selected_sentences = <<>>
    /\ raw_answer = <<>>
    /\ result = NoResult

InitDistance ==
    /\ NoAlignCall
    /\ NoPipelineCall
    /\ NewRanker
    /\ NoRankCall
    /\ call = "levenshtein"
    /\ pc = "ready"
    /\ in_s1 \in Strings
    /\ in_s2 \in Strings
    /\ out_distance = 0
    /\ out_ratio = One

CallDistance ==
    /\ pc = "ready"
    /\ out_distance' = levenshtein_distance(in_s1, in_s2)
    /\ pc' = "distance"
    /\ UNCHANGED <<libVars, pipeVars, rankVars, in_s1, in_s2, out_ratio>>

CallRatio ==
    /\ pc = "distance"
    /\ out_ratio' = levenshtein_ratio(in_s1, in_s2)
    /\ pc' = "ratio"
    /\ UNCHANGED <<libVars, pipeVars, rankVars, in_s1, in_s2,
                   out_distance>>

NextDistance == CallDistance \/ CallRatio

SpecDistance == InitDistance /\ [][NextDistance]_vars

----------------------------------------------------------------------------
(* BM25Ranker: _preprocess_text and _expand_query (lib/bm25.py).  A term is  *)
(* a Python str; the French stop words, the Snowball stemmer and             *)
(* word_tokenize are the library's values on the vocabulary of the model.    *)

UpperCase == <<"A", "B", "C", "D", "E", "F", "G", "H", "I", "J", "K", "L", "M",
               "N", "O", "P", "Q", "R", "S", "T", "U", "V", "W", "X", "Y", "Z">>

LowerCase == <<"a", "b", "c", "d", "e", "f", "g", "h", "i", "j", "k", "l", "m",
               "n", "o", "p", "q", "r", "s", "t", "u", "v", "w", "x", "y", "z">>

Digits == {"0", "1", "2", "3", "4", "5", "6", "7", "8", "9"}

\* the characters of the model that are neither \w nor \s
SpecialChars == Punctuation \cup {"(", "'", "\"", "-"}

\* string.punctuation: of its characters only the underscore is a \w
StringPunctuation == SpecialChars \cup {"_"}

\* str.lower()
Lower(t) ==
    [i \in 1..Len(t) |->
        IF \E k \in 1..Len(UpperCase) : UpperCase[k] = t[i]
        THEN LowerCase[CHOOSE k \in 1..Len(UpperCase) : UpperCase[k] = t[i]]
        ELSE t[i]]

\* re.sub(r'[^\w\s]', ' ', text)
ReplaceSpecialChars(t) ==
    [i \in 1..Len(t) |-> IF t[i] \in SpecialChars THEN " " ELSE t[i]]

\* word_tokenize (library) on a text of \w characters and whitespace: the
\* maximal runs of characters that are no whitespace
WordTokenize(t) ==
    LET Scan(st, i) ==
            IF t[i] \in Whitespace
            THEN IF st.word = <<>> THEN st
                 ELSE [out |-> Append(st.out, st.word), word |-> <<>>]
            ELSE IF i = Len(t)
                 THEN [out |-> Append(st.out, Append(st.word, t[i])),
                       word |-> <<>>]
                 ELSE [out |-> st.out, word |-> Append(st.word, t[i])]
    IN ForRange(Scan, [out |-> <<>>, word |-> <<>>], 1, Len(t)).out

\* stopwords.words('french') (library): the stop words of the vocabulary
stop_words ==
    {<<"l", "e">>, <<"l", "a">>, <<"l", "e", "s">>, <<"d", "e">>,
     <<"d", "e", "s">>, <<"e", "t">>}

\* str.isdigit()
IsDigit(token) ==
    Len(token) > 0 /\ \A i \in 1..Len(token) : token[i] \in Digits

\* the condition of the list comprehension of step 4
KeepToken(token) ==
    /\ token \notin stop_words
    /\ Len(token) > 1
    /\ ~IsDigit(token)
    /\ ~(\A i \in 1..Len(token) : token[i] \in StringPunctuation)

Vowels == {"a", "e", "i", "o", "u", "y"}

\* SnowballStemmer('french').stem (library) on the vocabulary of the model,
\* whose words have no suffix the stemmer knows but a plural s: a final s
\* that follows a consonant is removed
Stem(token) ==
    IF /\ Len(token) > 2
       /\ token[Len(token)] = "s"
       /\ token[Len(token) - 1] \notin Vowels \cup {"s"}
    THEN SubSeq(token, 1, Len(token) - 1)
    ELSE token

FilterTokens(tokens) ==
    LET Add(out, i) ==
            IF KeepToken(tokens[i]) THEN Append(out, tokens[i]) ELSE out
    IN ForRange(Add, <<>>, 1, Len(tokens))

StemTokens(tokens) == [i \in 1..Len(tokens) |-> Stem(tokens[i])]

\* bigrams.append(tokens[i] + '_' + tokens[i+1])
Bigrams(tokens) ==
    IF Len(tokens) < 2 THEN <<>>
    ELSE [i \in 1..(Len(tokens) - 1) |->
             tokens[i] \o <<"_">> \o tokens[i + 1]]

\* tokens + bigrams
WithBigrams(tokens) == tokens \o Bigrams(tokens)

_preprocess_text(text) ==
    WithBigrams(StemTokens(FilterTokens(WordTokenize(
        ReplaceSpecialChars(CollapseSpaces(Lower(text)))))))

rgpd == <<"r", "g", "p", "d">>

gdpr == <<"g", "d", "p", "r">>

reglement == <<"r", "e_grave", "g", "l", "e", "m", "e", "n", "t">>

protection == <<"p", "r", "o", "t", "e", "c", "t", "i", "o", "n">>

\* self.domain_terms: the entries whose key is a word of the vocabulary,
\* key -> boost
domain_terms == (rgpd :> Frac(2, 1)) @@ (gdpr :> Frac(2, 1))
                @@ (reglement :> Frac(3, 2)) @@ (protection :> Frac(3, 2))

\* expansion_map: the entry whose key is a word of the vocabulary
expansion_map == (rgpd :> <<gdpr, reglement, protection>>)

\* the expansions that one term of the query adds
Expansions(term) ==
    LET term_stem == IF term \in DOMAIN domain_terms THEN Stem(term) ELSE term
        key == rgpd
    IN IF term = key \/ term_stem = Stem(key) THEN expansion_map[key]
       ELSE <<>>

_expand_query(query_terms) ==
    LET Add(expanded_terms, i) == expanded_terms \o Expansions(query_terms[i])
    IN ForRange(Add, query_terms, 1, Len(query_terms))

\* expanded_terms = query_terms: the two names are one list
CallerListAliased(query_terms, expanded_terms) == expanded_terms

\* expanded_terms = query_terms.copy(): the list of the caller after the
\* call, which no append to expanded_terms reaches
CallerList(query_terms, expanded_terms) == query_terms

----------------------------------------------------------------------------
(* BM25Ranker: fit, _calculate_idf, _calculate_page_score and rank_pages.   *)
(* An IDF value is an integer number of thousandths, a page score an        *)
(* integer number of ten-thousandths; the ratios between them are exact     *)
(* fractions.  A dict is a function on its set of keys, and a page index    *)
(* is the index of the code, from 0.                                        *)

K1 == Frac(3, 2)

B == Frac(3, 4)

\* delta = 0: BM25 without the lower bound of BM25+
DeltaZero == Frac(0, 1)

DELTA == Frac(1, 1)

\* term_score *= 1.2
ExactTermBoost == Frac(12, 10)

\* max(scores) * 0.1
CutoffFraction == Frac(1, 10)

RECURSIVE GCD(_, _)
GCD(m, n) == IF n = 0 THEN m ELSE GCD(n, m % n)

\* the fraction in lowest terms
Lowest(x) == Frac(x[1] \div GCD(x[1], x[2]), x[2] \div GCD(x[1], x[2]))

FAdd(x, y) == Lowest(Frac(x[1] * y[2] + y[1] * x[2], x[2] * y[2]))

FSub(x, y) == Lowest(Frac(x[1] * y[2] - y[1] * x[2], x[2] * y[2]))

FMul(x, y) == Lowest(Frac(x[1] * y[1], x[2] * y[2]))

FDiv(x, y) == Lowest(Frac(x[1] * y[2], x[2] * y[1]))

\* 1000 * math.log(k) for k = 1..16, to the nearest integer
LnMilli == <<0, 693, 1099, 1386, 1609, 1792, 1946, 2079,
             2197, 2303, 2398, 2485, 2565, 2639, 2708, 2773>>

\* math.log((total_docs - doc_freq + 0.5) / (doc_freq + 0.5) + 1.0), which
\* is log((2 * total_docs + 2) / (2 * doc_freq + 1)), in thousandths
IdfMilli(total, doc_freq) ==
    LnMilli[2 * total + 2] - LnMilli[2 * doc_freq + 1]

\* if term in self.domain_terms: self.idf[term] *= self.domain_terms[term]
Boosted(value, term) ==
    IF term \in DOMAIN domain_terms
    THEN (value * domain_terms[term][1]) \div domain_terms[term][2]
    ELSE value

\* dict.get(key, 0)
Get(dict, key) == IF key \in DOMAIN dict THEN dict[key] ELSE 0

\* the loop of _calculate_idf over self.corpus_terms: the entries of these
\* terms are written, every other entry stays
_calculate_idf(old_idf, terms, freqs, total) ==
    [term \in (DOMAIN old_idf) \cup terms |->
        IF term \in terms
        THEN Boosted(IdfMilli(total, Get(freqs, term)), term)
        ELSE old_idf[term]]

\* Counter(page_terms).get(term, 0)
TermFreq(page_terms, term) ==
    Cardinality({i \in 1..Len(page_terms) : page_terms[i] = term})

\* (k1 + 1) / (tf + k1 * (1 - b + b * norm_doc_len)) + delta, times 1.2: the
\* numerator without tf
TermFactorNoTf(tf, norm_doc_len) ==
    FMul(FAdd(FDiv(FAdd(K1, One),
                   FAdd(Frac(tf, 1),
                        FMul(K1, FAdd(FSub(One, B), FMul(B, norm_doc_len))))),
              DELTA),
         ExactTermBoost)

\* tf * (k1 + 1) / (tf + k1 * (1 - b + b * norm_doc_len)) + delta, times 1.2
TermFactor(tf, norm_doc_len) ==
    FMul(FAdd(FDiv(FMul(Frac(tf, 1), FAdd(K1, One)),
                   FAdd(Frac(tf, 1),
                        FMul(K1, FAdd(FSub(One, B), FMul(B, norm_doc_len))))),
              DELTA),
         ExactTermBoost)

\* idf in thousandths times the factor, in ten-thousandths
Scaled(idf_milli, factor) == (idf_milli * 10 * factor[1]) \div factor[2]

\* the sum over the distinct terms of the query: an occurrence of a term
\* that occurred before adds nothing
PageScoreDistinct(page_terms, query_terms, norm_doc_len, idf_table) ==
    LET Add(score, q) ==
            IF /\ query_terms[q] \in DOMAIN idf_table
               /\ \A p \in 1..(q - 1) : query_terms[p] # query_terms[q]
            THEN score + Scaled(idf_table[query_terms[q]],
                                TermFactor(TermFreq(page_terms, query_terms[q]),
                                           norm_doc_len))
            ELSE score
    IN ForRange(Add, 0, 1, Len(query_terms))

\* the body of _calculate_page_score after the division that gives
\* norm_doc_len
PageScore(page_terms, query_terms, norm_doc_len, idf_table) ==
    LET Add(score, q) ==
            IF query_terms[q] \in DOMAIN idf_table
            THEN score + Scaled(idf_table[query_terms[q]],
                                TermFactor(TermFreq(page_terms, query_terms[q]),
                                           norm_doc_len))
            ELSE score
    IN ForRange(Add, 0, 1, Len(query_terms))

\* doc_len / self.avg_doc_len raises ZeroDivisionError when the average is 0
DivisionRaises(avg) == avg[1] = 0

_calculate_page_score(page_terms, query_terms, doc_len, avg, idf_table) ==
    PageScore(page_terms, query_terms, FDiv(Frac(doc_len, 1), avg), idf_table)

SumSeq(xs) ==
    LET Add(total, i) == total + xs[i]
    IN ForRange(Add, 0, 1, Len(xs))

\* the terms of the pages: the keys of term_doc_freqs
TermsOf(tokenized_pages) ==
    UNION {Range(tokenized_pages[i]) : i \in 1..Len(tokenized_pages)}

\* term_doc_freqs: the number of pages a term occurs in
TermDocFreqs(tokenized_pages) ==
    [term \in TermsOf(tokenized_pages) |->
        Cardinality({i \in 1..Len(tokenized_pages) :
                        term \in Range(tokenized_pages[i])})]

\* the permutations of 0..n-1, as sequences
Orders(n) ==
    {order \in [1..n -> 0..(n - 1)] :
        \A i, j \in 1..n : i # j => order[i] # order[j]}

\* the test of the ascending order
BeforeAscending(score_x, score_y) == score_x <= score_y

\* the test that places page x before page y in the reversed argsort
Before(score_x, score_y) == score_x >= score_y

\* np.argsort(scores)[::-1].tolist(): the default sort of numpy is not
\* stable, so that pages of equal score come in an order that depends on
\* the build of numpy; every order by descending score is a possible value
Argsort(scores) ==
    {order \in Orders(Len(scores)) :
        \A i, j \in 1..Len(scores) :
            i < j => Before(scores[order[i] + 1], scores[order[j] + 1])}

MaxOf(xs) == CHOOSE x \in Range(xs) : \A y \in Range(xs) : x >= y

\* the test with >= in the place of >
CutoffTestNonStrict(score, max_score) ==
    score * CutoffFraction[2] >= max_score * CutoffFraction[1]

\* scores[idx] > threshold with threshold = max(scores) * 0.1
CutoffTest(score, max_score) ==
    score * CutoffFraction[2] > max_score * CutoffFraction[1]

\* [idx for idx in ranked_indices if scores[idx] > threshold]
Filtered(ranked_indices, scores) ==
    LET Add(out, i) ==
            IF CutoffTest(scores[ranked_indices[i] + 1], MaxOf(scores))
            THEN Append(out, ranked_indices[i])
            ELSE out
    IN ForRange(Add, <<>>, 1, Len(ranked_indices))

\* xs[:k + 1]
SliceOneMore(xs, k) == SubSeq(xs, 1, Min2(k + 1, Len(xs)))

\* xs[:k] of Python, k of either sign
Slice(xs, k) ==
    IF k >= 0 THEN SubSeq(xs, 1, Min2(k, Len(xs)))
    ELSE SubSeq(xs, 1, Len(xs) + k)

\* if top_k is not None and top_k < len(ranked_indices): ranked_indices[:top_k]
TopK(ranked_indices, top_k) ==
    IF top_k # NoneInt /\ top_k[1] < Len(ranked_indices)
    THEN Slice(ranked_indices, top_k[1])
    ELSE ranked_indices

----------------------------------------------------------------------------
(* Calls of fit and rank_pages on one BM25Ranker, and the page              *)
(* preselection of VeritasCrewBuilder.build (lib/agents.py)                 *)

MaxPages == 2

\* "Le RGPD."
PageRgpd == <<"L", "e", " ", "R", "G", "P", "D", ".">>

\* "le rgpd !": the terms of PageRgpd
PageRgpdBis == <<"l", "e", " ", "r", "g", "p", "d", " ", "!">>

\* "chats, chat GDPR"
PageChats ==
    <<"c", "h", "a", "t", "s", ",", " ", "c", "h", "a", "t", " ",
      "G", "D", "P", "R">>

\* "12 a.": no term
PageDigits == <<"1", "2", " ", "a", ".">>

\* "rgpd chat rgpd"
PageBoth ==
    <<"r", "g", "p", "d", " ", "c", "h", "a", "t", " ", "r", "g", "p", "d">>

\* the page texts, in a ring
PagePieces == <<PageRgpd, PageRgpdBis, PageChats, PageDigits, PageBoth>>

\* the corpus of n pages that starts at a page of the ring
PageRun(first, n) ==
    [j \in 1..n |-> PagePieces[((first + j - 2) % Len(PagePieces)) + 1]]

Corpora ==
    {PageRun(first, n) : first \in 1..Len(PagePieces), n \in 0..MaxPages}

\* "RGPD ?", "RGPD, gdpr rgpd", "les chats" and the empty query
Queries ==
    {<<"R", "G", "P", "D", " ", "?">>,
     <<"R", "G", "P", "D", ",", " ", "g", "d", "p", "r", " ",
       "r", "g", "p", "d">>,
     <<"l", "e", "s", " ", "c", "h", "a", "t", "s">>,
     <<>>}

TopKs == {NoneInt, <<-1>>, <<1>>, <<2>>}

\* values of config.BM25_TOP_K
ConfiguredTopKs == {1, 2}

\* _preprocess_text of every page text and of every query of the model
Preprocessed ==
    [text \in Range(PagePieces) \cup Queries |-> _preprocess_text(text)]

\* tokenized_pages
Tokenized(pages) == [i \in 1..Len(pages) |-> Preprocessed[pages[i]]]

\* the body of fit
fit(pages) ==
    /\ total_docs' = Len(pages)
    /\ doc_lens' = [i \in 1..Len(pages) |-> Len(Tokenized(pages)[i])]
    /\ corpus_terms' = corpus_terms \cup TermsOf(Tokenized(pages))
    /\ avg_doc_len' = Frac(SumSeq(doc_lens'), Max2(1, total_docs'))
    /\ doc_freqs' = TermDocFreqs(Tokenized(pages))
    /\ idf' = _calculate_idf(idf, corpus_terms', doc_freqs', total_docs')

\* the scores of the pages, in the order of the pages
ScoresOf(tokenized_pages, expanded_query_terms, lens, avg, idf_table) ==
    [i \in 1..Len(tokenized_pages) |->
        _calculate_page_score(tokenized_pages[i], expanded_query_terms,
                              lens[i], avg, idf_table)]

\* the body of rank_pages
rank_pages(pages, query, top_k) ==
    IF Len(pages) = 0
    THEN /\ out_scores' = <<>>
         /\ out_ranked' = <<>>
         /\ out_query_terms' = <<>>
         /\ out_expanded' = <<>>
         /\ pc' = "ranked"
         /\ UNCHANGED rankerVars
    ELSE /\ fit(pages)
         /\ out_expanded' = _expand_query(Preprocessed[query])
         /\ out_query_terms' = CallerList(Preprocessed[query], out_expanded')
         /\ IF DivisionRaises(avg_doc_len')
            THEN /\ out_scores' = <<>>
                 /\ out_ranked' = <<>>
                 /\ pc' = "raised"
            ELSE /\ out_scores' =
                        ScoresOf(Tokenized(pages), out_expanded',
                                 doc_lens', avg_doc_len', idf')
                 /\ \E ranked_indices \in Argsort(out_scores') :
                        out_ranked' =
                            TopK(Filtered(ranked_indices, out_scores'), top_k)
                 /\ pc' = "ranked"

\* a call of fit
Fit ==
    /\ pc = "ready"
    /\ call' = "fit"
    /\ \E pages \in Corpora :
           /\ in_pages' = pages
           /\ fit(pages)
    /\ in_query' = <<>>
    /\ in_top_k' = NoneInt
    /\ out_scores' = <<>>
    /\ out_ranked' = <<>>
    /\ out_query_terms' = <<>>
    /\ out_expanded' = <<>>
    /\ pc' = "fitted"
    /\ UNCHANGED <<alignVars, pipeVars, levVars>>

\* a call of rank_pages
RankPages ==
    /\ pc = "ready"
    /\ call' = "rank_pages"
    /\ \E pages \in Corpora, query \in Queries, top_k \in TopKs :
           /\ in_pages' = pages
           /\ in_query' = query
           /\ in_top_k' = top_k
           /\ rank_pages(pages, query, top_k)
    /\ UNCHANGED <<alignVars, pipeVars, levVars>>

\* the test with < in the place of <=
UseAllPagesStrict(pages, BM25_TOP_K) == Len(pages) < BM25_TOP_K

\* if len(pages) <= config.BM25_TOP_K
UseAllPages(pages, BM25_TOP_K) == Len(pages) <= BM25_TOP_K

\* list(range(len(pages)))
AllPages(pages) == [i \in 1..Len(pages) |-> i - 1]

\* top_pages_indices of VeritasCrewBuilder.build, on the ranker of the
\* builder
BuildPreselect ==
    /\ pc = "ready"
    /\ call' = "build"
    /\ \E pages \in Corpora, search_query \in Queries,
          BM25_TOP_K \in ConfiguredTopKs :
           /\ in_pages' = pages
           /\ in_query' = search_query
           /\ in_top_k' = <<BM25_TOP_K>>
           /\ IF UseAllPages(pages, BM25_TOP_K)
              THEN /\ out_scores' = <<>>
                   /\ out_ranked' = AllPages(pages)
                   /\ out_query_terms' = <<>>
                   /\ out_expanded' = <<>>
                   /\ pc' = "ranked"
                   /\ UNCHANGED rankerVars
              ELSE rank_pages(pages, search_query, <<BM25_TOP_K>>)
    /\ UNCHANGED <<alignVars, pipeVars, levVars>>

\* the caller is done with the values of the call, returned or raised; the
\* ranker keeps its fields for the next call
NextCall ==
    /\ pc \in {"fitted", "ranked", "raised"}
    /\ call' = "idle"
    /\ pc' = "ready"
    /\ in_pages' = <<>>
    /\ in_query' = <<>>
    /\ in_top_k' = NoneInt
    /\ out_scores' = <<>>
    /\ out_ranked' = <<>>
    /\ out_query_terms' = <<>>
    /\ out_expanded' = <<>>
    /\ UNCHANGED <<rankerVars, alignVars, pipeVars, levVars>>

InitRank ==
    /\ NoAlignCall
    /\ NoPipelineCall
    /\ NoDistanceCall
    /\ NewRanker
    /\ NoRankCall
    /\ call = "idle"
    /\ pc = "ready"

NextRank == Fit \/ RankPages \/ BuildPreselect \/ NextCall

SpecRank == InitRank /\ [][NextRank]_vars

----------------------------------------------------------------------------
(* Veritas.answer_question *)

MIN_SIMILARITY_THRESHOLD == Frac(75, 100)

MinSalvageLen == 20

Question == <<"q", "?">>

DocLong ==
    <<"a","a","a","a"," ","b","b","b","b"," ","c","c","c","c"," ","a","a",
      "a","a"," ","b","b",".">>

NotInDocLong ==
    <<"c","b","c","b"," ","c","b","c","b"," ","c","b","c","b"," ","c","b",
      "c","b"," ","c","b",".">>

\* self.sentences_by_page, as extracted from the PDF by __init__
sentences_by_page ==
    [page \in {0, 1} |-> IF page = 0 THEN <<SrcExact, DocLong>> ELSE <<SrcMid>>]

DocSentences == UNION {Range(sentences_by_page[page]) : page \in {0, 1}}

NoPageAnswer ==
    <<"A","u","c","u","n","e"," ","p","a","g","e"," ","p","e","r","t","i",
      "n","e","n","t","e"," ","n","'","a"," ","e_acute","t","e_acute"," ",
      "t","r","o","u","v","e_acute","e"," ","d","a","n","s"," ","l","e"," ",
      "d","o","c","u","m","e","n","t",".">>

NoSentenceAnswer ==
    <<"A","u","c","u","n","e"," ","p","h","r","a","s","e"," ","p","e","r",
      "t","i","n","e","n","t","e"," ","n","'","a"," ","e_acute","t",
      "e_acute"," ","t","r","o","u","v","e_acute","e"," ","d","a","n","s",
      " ","l","e","s"," ","p","a","g","e","s"," ","s","e_acute","l","e","c",
      "t","i","o","n","n","e_acute","e","s",".">>

GeneratorFailure ==
    <<"I","m","p","o","s","s","i","b","l","e"," ","d","e"," ","g","e_acute",
      "n","e_acute","r","e","r"," ","u","n","e"," ","r","e_acute","p","o",
      "n","s","e"," ","c","o","h","e_acute","r","e","n","t","e"," ",
      "a_grave"," ","p","a","r","t","i","r"," ","d","e","s"," ","p","h","r",
      "a","s","e","s"," ","s","e_acute","l","e","c","t","i","o","n","n",
      "e_acute","e","s",".">>

ErrorPrefix ==
    <<"U","n","e"," ","e","r","r","e","u","r"," ","s","'","e","s","t"," ",
      "p","r","o","d","u","i","t","e"," ","l","o","r","s"," ","d","u"," ",
      "t","r","a","i","t","e","m","e","n","t",":"," ">>

\* the dictionary of the except branch; e names the exception
ErrorResult(e) ==
    [question |-> Question, answer |-> ErrorPrefix \o <<e>>,
     raw_answer |-> <<>>, source_sentences |-> <<>>,
     alignment_details |-> <<>>, source_pages |-> <<>>]

\* re.findall(r'"([^"]+)"', text), then the matches longer than 20: a quote
\* opens a match, the next quote closes it unless nothing lies between them,
\* in which case that quote opens the next attempt
Salvage(text) ==
    LET Scan(st, i) ==
            IF text[i] = "\""
            THEN IF st.open /\ Len(st.cur) > 0
                 THEN [matches |-> Append(st.matches, st.cur),
                       open |-> FALSE, cur |-> <<>>]
                 ELSE [matches |-> st.matches, open |-> TRUE, cur |-> <<>>]
            ELSE IF st.open
                 THEN [matches |-> st.matches, open |-> TRUE,
                       cur |-> Append(st.cur, text[i])]
                 ELSE st
        matches == ForRange(Scan,
                            [matches |-> <<>>, open |-> FALSE, cur |-> <<>>],
                            1, Len(text)).matches
        LongMatch(m) == Len(m) > MinSalvageLen
    IN SelectSeq(matches, LongMatch)

\* if not selected_pages_indices
NoPageSelected(indices) == Len(indices) = 0

\* a selection that is always taken as non-empty
NoSentenceSelectedNever(sentences) == FALSE

\* if not selected_sentences
NoSentenceSelected(sentences) == Len(sentences) = 0

\* no failure of json.loads(result2_str) is caught
CaughtByInnerExceptNever(kind) == FALSE

\* except json.JSONDecodeError: the failure of json.loads(result2_str) that
\* the inner try catches; any other exception goes to the outer except
CaughtByInnerExcept(kind) == kind = "not_json"

\* what str(result1) can be: JSON of a dictionary, JSON of something else,
\* no JSON at all; "raise" is build() or kickoff() raising
PageSelectorOutputs ==
    {[kind |-> "dict", selected_pages |-> ps] :
        ps \in {<<>>, <<1, 0>>, <<7>>}}
    \cup {[kind |-> k, selected_pages |-> <<>>] :
             k \in {"not_json", "not_dict", "raise"}}

\* the sentences the filter agent may name: sentences of the document and
\* sentences that are not in the document
FilterSentencePool == {SrcExact, DocLong, GenWeak, NotInDocLong}

MaxSelectedSentences == 2

\* a sentence that only a salvaged text holds
QuotedOnly ==
    <<"c","c","c","c"," ","a","a","a","a"," ","c","c","c","c"," ","a","a",
      "a","a"," ","c","c",".">>

FilterTexts ==
    {<<"a", "b", "c">>,
     <<"\"">> \o DocLong \o <<"\"", ",", " ", "\"">> \o SrcExact \o <<"\"">>,
     <<"\"", "\"">> \o NotInDocLong \o <<"\"", " ", "\"">> \o DocLong,
     <<"{", "\"">> \o QuotedOnly \o <<"\"">>}

FilterOutputs ==
    {[kind |-> "dict", selected_sentences |-> ss, text |-> <<>>] :
        ss \in SeqsUpTo(FilterSentencePool, MaxSelectedSentences)}
    \cup {[kind |-> "not_json", selected_sentences |-> <<>>, text |-> t] :
             t \in FilterTexts}
    \cup {[kind |-> k, selected_sentences |-> <<>>, text |-> <<>>] :
             k \in {"not_dict", "raise"}}

GeneratorOutputs ==
    {[kind |-> "text", text |-> t] :
        t \in {<<>>, SrcExact, GenWeak, GenMessy, DocLong, NotInDocLong,
               JoinRaw(<<SrcMid, NotInDocLong>>)}}
    \cup {[kind |-> "raise", text |-> <<>>]}

Init ==
    /\ NoDistanceCall
    /\ NewRanker
    /\ NoRankCall
    /\ call = "answer_question"
    /\ pc = "page_selection"
    /\ nltk_ok \in BOOLEAN
    /\ threshold = MIN_SIMILARITY_THRESHOLD
    /\ response = <<>>
    /\ source_sentences = <<>>
    /\ alignment_results = <<>>
    /\ factual_answer = <<>>
    /\ selected_pages_indices = <<>>
    /\ selected_sentences = <<>>
    /\ raw_answer = <<>>
    /\ result = NoResult

\* crew_builder.build(), crew.kickoff() and the parsing of result1, up to
\* the kickoff of the sentence filter
PageSelection ==
    /\ pc = "page_selection"
    /\ \E out \in PageSelectorOutputs :
           IF out.kind = "raise"
           THEN /\ pc' = "raised"
                /\ UNCHANGED <<selected_pages_indices, result>>
           ELSE IF out.kind # "dict"
           THEN /\ pc' = "returned_error"
                /\ result' = ErrorResult(out.kind)
                /\ UNCHANGED selected_pages_indices
           ELSE IF NoPageSelected(out.selected_pages)
           THEN /\ pc' = "returned_no_page"
                /\ result' = [question |-> Question,
                              answer |-> NoPageAnswer,
                              raw_answer |-> <<>>,
                              source_sentences |-> <<>>,
                              alignment_details |-> <<>>,
                              source_pages |-> <<>>]
                /\ UNCHANGED selected_pages_indices
           ELSE /\ pc' = "sentence_filter"
                /\ selected_pages_indices' = out.selected_pages
                /\ UNCHANGED result
    /\ UNCHANGED <<libVars, selected_sentences, raw_answer, levVars,
                   rankVars>>

\* new_crew.kickoff() and the extraction of the selected sentences, up to
\* the kickoff of the generator
SentenceFilter ==
    /\ pc = "sentence_filter"
    /\ \E out \in FilterOutputs :
           IF out.kind # "dict" /\ ~CaughtByInnerExcept(out.kind)
           THEN /\ pc' = "returned_error"
                /\ result' = ErrorResult(out.kind)
                /\ UNCHANGED selected_sentences
           ELSE LET selected == IF out.kind = "dict"
                                THEN out.selected_sentences
                                ELSE Salvage(out.text)
                IN IF NoSentenceSelected(selected)
                   THEN /\ pc' = "returned_no_sentence"
                        /\ result' = [question |-> Question,
                                      answer |-> NoSentenceAnswer,
                                      raw_answer |-> <<>>,
                                      source_sentences |-> <<>>,
                                      alignment_details |-> <<>>,
                                      source_pages |-> selected_pages_indices]
                        /\ UNCHANGED selected_sentences
                   ELSE /\ pc' = "generation"
                        /\ selected_sentences' = selected
                        /\ UNCHANGED result
    /\ UNCHANGED <<libVars, selected_pages_indices, raw_answer, levVars,
                   rankVars>>

\* final_crew.kickoff(), the alignment, the factual answer and the return
Generation ==
    /\ pc = "generation"
    /\ \E out \in GeneratorOutputs :
           raw_answer' = IF out.kind = "raise" THEN GeneratorFailure
                         ELSE out.text
    /\ alignment_results' = align_response(raw_answer', selected_sentences,
                                           MIN_SIMILARITY_THRESHOLD, nltk_ok)
    /\ factual_answer' = build_factual_response(alignment_results')
    /\ result' = [question |-> Question,
                  answer |-> factual_answer',
                  raw_answer |-> raw_answer',
                  source_sentences |-> selected_sentences,
                  alignment_details |-> alignment_results',
                  source_pages |-> selected_pages_indices]
    /\ pc' = "returned_answer"
    /\ UNCHANGED <<call, response, source_sentences, threshold, nltk_ok,
                   selected_pages_indices, selected_sentences, levVars,
                   rankVars>>

Next == PageSelection \/ SentenceFilter \/ Generation

Spec == Init /\ [][Next]_vars

----------------
(* Vocabulary of the properties *)

Aligned == call = "align" /\ pc = "aligned"

Built == pc = "built"

\* the greatest ratio of g over the source sentences
MaxRatio(g, sources) ==
    LET ratios == {levenshtein_ratio(g, s) : s \in Range(sources)}
    IN CHOOSE r \in ratios : \A q \in ratios : FGeq(r, q)

Attains(g, src, sources) ==
    /\ src \in Range(sources)
    /\ FEq(levenshtein_ratio(g, src), MaxRatio(g, sources))

\* the retained sentences of the generated text
Retained == SplitSentences(clean_text(response), nltk_ok)

\* one record per retained sentence, in order
OnePerSentence ==
    /\ Len(alignment_results) = Len(Retained)
    /\ \A k \in 1..Len(Retained) :
           alignment_results[k].generated = Retained[k]

HasInputs == Len(response) > 0 /\ Len(source_sentences) > 0

IsPrefix(p, t) == Len(t) >= Len(p) /\ SubSeq(t, 1, Len(p)) = p

Drop(t, n) == SubSeq(t, n + 1, Len(t))

\* ans is s1 + ". " + ... + sn + "." with every si in S
RECURSIVE ComposedOf(_, _)
ComposedOf(ans, S) ==
    \E src \in S :
        \/ ans = src \o <<".">>
        \/ /\ IsPrefix(src \o <<".", " ">>, ans)
           /\ ComposedOf(Drop(ans, Len(src) + 2), S)

PresentSources(rs) == {rs[k].source : k \in 1..Len(rs)} \ {None}

\* the k-th smallest element of a set of integers
KthSmallest(S, k) == CHOOSE x \in S : Cardinality({y \in S : y < x}) = k - 1

\* the sources of the records whose index is in I, in record order
SourcesAt(rs, I) ==
    [j \in 1..Cardinality(I) |-> rs[KthSmallest(I, j)].source]

----------------------------------------------------------------------------
(* Properties of build_factual_response *)

\* C2: build_factual_response returns the refusal string or a string
\* s1 + ". " + ... + sn + "." whose every si is the source of an input
\* record; the generated fields have no influence on the output.
C2_OnlySourceText ==
    Built =>
        /\ \/ factual_answer = Refusal
           \/ ComposedOf(factual_answer, PresentSources(alignment_results))
        /\ factual_answer =
               build_factual_response(
                   [k \in 1..Len(alignment_results) |->
                       [alignment_results[k] EXCEPT !.generated = <<"x">>]])

C2_Witness ==
    /\ Built
    /\ factual_answer # Refusal
    /\ \E k \in 1..Len(alignment_results) :
           /\ alignment_results[k].source # None
           /\ alignment_results[k].generated # alignment_results[k].source

AlignedIdx(rs) == {k \in 1..Len(rs) : rs[k].aligned}

AlignedWithSourceIdx(rs) ==
    {k \in 1..Len(rs) : rs[k].aligned /\ rs[k].source \notin {None, <<>>}}

\* C9 as stated: when some record has aligned=true, the answer is exactly
\* the sources of the aligned records, in record order, joined with ". "
\* plus a final period.
C9_AsStated ==
    (Built /\ AlignedIdx(alignment_results) # {}) =>
        factual_answer =
            JoinParts(SourcesAt(alignment_results,
                                AlignedIdx(alignment_results)))

\* C9 amended: when some record has aligned=true and a non-empty source, the
\* answer is exactly the non-empty sources of the aligned records, in record
\* order, joined with ". " plus a final period.
C9_AlignedSourcesInOrder ==
    (Built /\ AlignedWithSourceIdx(alignment_results) # {}) =>
        factual_answer =
            JoinParts(SourcesAt(alignment_results,
                                AlignedWithSourceIdx(alignment_results)))

\* two aligned records whose similarities rise, and an unaligned record with
\* a source in between
C9_Witness ==
    /\ Built
    /\ \E i, j, k \in 1..Len(alignment_results) :
           /\ i < j /\ j < k
           /\ alignment_results[i].aligned
           /\ alignment_results[k].aligned
           /\ ~alignment_results[j].aligned
           /\ alignment_results[j].source # None
           /\ FGt(alignment_results[k].similarity,
                  alignment_results[i].similarity)

CandidateIdx(rs) ==
    {k \in 1..Len(rs) :
        rs[k].source # None /\ FGeq(rs[k].similarity, Frac(3, 10))}

\* f lists, best first, min(5, number of candidates) distinct candidates and
\* no candidate left out is better than one listed
IsTopSelection(f, rs) ==
    LET C == CandidateIdx(rs)
    IN /\ \A i, j \in DOMAIN f : i < j =>
              /\ f[i] # f[j]
              /\ FGeq(rs[f[i]].similarity, rs[f[j]].similarity)
       /\ \A c \in C \ Range(f) : \A j \in DOMAIN f :
              FGeq(rs[f[j]].similarity, rs[c].similarity)

\* C10: when no record has aligned=true, the answer is made of the records
\* with a source and similarity >= 0.3, by descending similarity, at most
\* the 5 highest, joined with ". " plus a final period.
C10_FallbackTopFive ==
    (Built /\ AlignedIdx(alignment_results) = {}
           /\ CandidateIdx(alignment_results) # {}) =>
        LET C == CandidateIdx(alignment_results)
            m == Min2(5, Cardinality(C))
        IN \E f \in [1..m -> C] :
               /\ IsTopSelection(f, alignment_results)
               /\ factual_answer =
                      JoinParts([j \in 1..m |-> alignment_results[f[j]].source])

\* more than five candidates, not in similarity order, next to a sourced
\* record below 0.3
C10_Witness ==
    /\ Built
    /\ AlignedIdx(alignment_results) = {}
    /\ Cardinality(CandidateIdx(alignment_results)) > 5
    /\ \E i, j \in CandidateIdx(alignment_results) :
           /\ i < j
           /\ FGt(alignment_results[j].similarity,
                  alignment_results[i].similarity)
    /\ \E k \in 1..Len(alignment_results) :
           /\ alignment_results[k].source # None
           /\ ~FGeq(alignment_results[k].similarity, Frac(3, 10))

C28_RefusalIffNoSource ==
    (Built /\ call = "align" /\ FGeq(threshold, Frac(4, 10))) =>
        /\ factual_answer = Refusal <=>
               \A k \in 1..Len(alignment_results) :
                   alignment_results[k].source = None
        /\ \A k \in 1..Len(alignment_results) :
               alignment_results[k].source # None =>
                   FGeq(alignment_results[k].similarity, BestMatchFloor)

\* an answer built from a near match alone, below the primary threshold,
\* next to a record without source
C28_Witness ==
    /\ Built
    /\ call = "align"
    /\ FGeq(threshold, Frac(4, 10))
    /\ factual_answer # Refusal
    /\ AlignedIdx(alignment_results) = {}
    /\ \E i, j \in 1..Len(alignment_results) :
           /\ alignment_results[i].source # None
           /\ ~FGeq(alignment_results[i].similarity, threshold)
           /\ alignment_results[j].source = None

----------------------------------------------------------------------------
(* Properties of align_response *)

\* C3: for every retained generated sentence g the record has aligned=true
\* exactly when the greatest ratio of g over the source sentences is >= the
\* primary threshold, and then its source attains that maximum and its
\* similarity is that maximum.
C3_AlignedIffMaxAboveThreshold ==
    (Aligned /\ HasInputs) =>
        /\ OnePerSentence
        /\ \A k \in 1..Len(alignment_results) :
               LET r == alignment_results[k]
                   best == MaxRatio(r.generated, source_sentences)
               IN /\ r.aligned <=> FGeq(best, threshold)
                  /\ r.aligned =>
                         /\ Attains(r.generated, r.source, source_sentences)
                         /\ FEq(r.similarity, best)

\* an aligned record chosen among two sources of different ratio, next to a
\* record that is not aligned
C3_Witness ==
    /\ Aligned
    /\ Len(source_sentences) = 2
    /\ \E i, j \in 1..Len(alignment_results) :
           /\ alignment_results[i].aligned
           /\ alignment_results[i].source = source_sentences[2]
           /\ ~FEq(levenshtein_ratio(alignment_results[i].generated,
                                     source_sentences[1]),
                   alignment_results[i].similarity)
           /\ ~alignment_results[j].aligned

InNearBand(g) ==
    LET best == MaxRatio(g, source_sentences)
    IN ~FGeq(best, threshold) /\ FGeq(best, Frac(4, 10))

\* C4: when the best ratio of a generated sentence is below the primary
\* threshold but >= 0.4, the record has aligned=false, the best-matching
\* source sentence as source and the best ratio as similarity, whatever the
\* primary threshold is.
C4_NearMatchKeepsSource ==
    (Aligned /\ HasInputs) =>
        \A k \in 1..Len(alignment_results) :
            LET r == alignment_results[k]
            IN InNearBand(r.generated) =>
                   /\ ~r.aligned
                   /\ Attains(r.generated, r.source, source_sentences)
                   /\ FEq(r.similarity,
                          MaxRatio(r.generated, source_sentences))

\* a near match under the primary threshold 1.0 whose ratio would have
\* passed the default threshold
C4_Witness ==
    /\ Aligned /\ HasInputs
    /\ threshold = One
    /\ \E k \in 1..Len(alignment_results) :
           /\ InNearBand(alignment_results[k].generated)
           /\ FGeq(alignment_results[k].similarity, DefaultThreshold)

BelowBoth(g) ==
    LET best == MaxRatio(g, source_sentences)
    IN ~FGeq(best, threshold) /\ ~FGeq(best, Frac(4, 10))

\* C5: when the best ratio of a generated sentence is below the primary
\* threshold and below 0.4, the record has aligned=false, no source, and
\* the best ratio (0 when every ratio is 0) as similarity.
C5_NoMatchHasNoSource ==
    (Aligned /\ HasInputs) =>
        \A k \in 1..Len(alignment_results) :
            LET r == alignment_results[k]
            IN BelowBoth(r.generated) =>
                   /\ ~r.aligned
                   /\ r.source = None
                   /\ FEq(r.similarity,
                          MaxRatio(r.generated, source_sentences))

\* a record without source whose best ratio is above 0, and one whose best
\* ratio is 0
C5_Witness ==
    /\ Aligned /\ HasInputs
    /\ \E i, j \in 1..Len(alignment_results) :
           /\ BelowBoth(alignment_results[i].generated)
           /\ FGt(alignment_results[i].similarity, Zero)
           /\ BelowBoth(alignment_results[j].generated)
           /\ FEq(alignment_results[j].similarity, Zero)

\* C6: every record of align_response has a similarity in [0,1]; a source,
\* when present, is one of the source sentences, the similarity is its ratio
\* to the generated sentence and is >= the threshold used to find it (the
\* primary one when aligned, 0.4 otherwise); aligned=true implies
\* similarity >= the primary threshold.
C6_RecordInvariant ==
    Aligned =>
        \A k \in 1..Len(alignment_results) :
            LET r == alignment_results[k]
            IN /\ FGeq(r.similarity, Zero)
               /\ FGeq(One, r.similarity)
               /\ r.source # None =>
                      /\ r.source \in Range(source_sentences)
                      /\ FEq(r.similarity,
                             levenshtein_ratio(r.generated, r.source))
                      /\ FGeq(r.similarity,
                              IF r.aligned THEN threshold ELSE Frac(4, 10))
               /\ r.aligned => FGeq(r.similarity, threshold)

\* an aligned record, a near match and a record without source together
C6_Witness ==
    /\ Aligned
    /\ \E i, j \in 1..Len(alignment_results) :
           /\ alignment_results[i].source # None
           /\ ~alignment_results[i].aligned
           /\ alignment_results[j].source = None
    /\ threshold = DefaultThreshold

\* C7: a retained generated sentence that equals one of the source
\* sentences gets aligned=true, similarity 1.0 and that sentence as source,
\* for every primary threshold <= 1.0.
C7_ExactSentenceAligned ==
    (Aligned /\ HasInputs) =>
        /\ OnePerSentence
        /\ \A k \in 1..Len(alignment_results) :
               LET r == alignment_results[k]
               IN r.generated \in Range(source_sentences) =>
                      /\ r.aligned
                      /\ FEq(r.similarity, One)
                      /\ r.source = r.generated

\* an exact sentence, reached through normalisation, under threshold 1.0
C7_Witness ==
    /\ Aligned /\ HasInputs
    /\ threshold = One
    /\ clean_text(response) # response
    /\ \E k \in 1..Len(alignment_results) :
           /\ alignment_results[k].generated \in Range(source_sentences)
           /\ alignment_results[k].aligned

\* C8: align_response returns the empty list whenever the generated text is
\* empty or the list of source sentences is empty.
C8_EmptyInputsGiveEmptyList ==
    (Aligned /\ ~HasInputs) => alignment_results = <<>>

\* a call with sentences to align and no source sentence
C8_Witness ==
    /\ Aligned
    /\ Len(source_sentences) = 0
    /\ Len(Retained) > 0
    /\ alignment_results = <<>>

----------------------------------------------------------------------------
(* Properties of answer_question *)

\* C1: whatever the agents return, the answer of a result that went through
\* the alignment stage is the refusal string or is composed only of
\* sentences of the document (elements of sentences_by_page).
C1_AnswerOnlyDocumentSentences ==
    pc = "returned_answer" =>
        \/ result.answer = Refusal
        \/ ComposedOf(result.answer, DocSentences)

----------------------------------------------------------------------------
(* Properties of levenshtein_distance and levenshtein_ratio *)

\* levenshtein_distance has returned for in_s1 and in_s2
Measured == call = "levenshtein" /\ pc \in {"distance", "ratio"}

\* levenshtein_ratio has returned for in_s1 and in_s2
RatioMeasured == call = "levenshtein" /\ pc = "ratio"

\* the strings of length at most n that one insertion, one deletion or one
\* substitution of a single character makes of x
OneEdit(x, n) ==
    LET deleted == {SubSeq(x, 1, i - 1) \o SubSeq(x, i + 1, Len(x)) :
                       i \in 1..Len(x)}
        substituted == {[x EXCEPT ![i] = c] :
                           i \in 1..Len(x), c \in Alphabet}
        inserted == IF Len(x) >= n THEN {}
                    ELSE {SubSeq(x, 1, i) \o <<c>> \o SubSeq(x, i + 1, Len(x)) :
                             i \in 0..Len(x), c \in Alphabet}
    IN deleted \cup substituted \cup inserted

\* reached holds the strings that at most k edits make of the first string:
\* the least number of edits after which b is among them
RECURSIVE EditsFrom(_, _, _, _)
EditsFrom(reached, b, n, k) ==
    IF b \in reached THEN k
    ELSE EditsFrom(reached \cup UNION {OneEdit(x, n) : x \in reached},
                   b, n, k + 1)

\* the classic edit distance: the minimum number of single-character
\* insertions, deletions and substitutions turning a into b.  A shortest
\* script can delete and substitute before it inserts, so that no string on
\* the way is longer than the longer of a and b.
EditDistance(a, b) ==
    EditsFrom({a}, b, IF Len(a) >= Len(b) THEN Len(a) ELSE Len(b), 0)

\* C18: levenshtein_distance(a, b) is the classic case-sensitive edit
\* distance of a and b: the minimum number of single-character insertions,
\* deletions and substitutions turning a into b; in particular it is 0 for
\* equal strings and len(x) against the empty string.
C18_ClassicEditDistance ==
    Measured =>
        /\ out_distance = EditDistance(in_s1, in_s2)
        /\ (in_s1 = in_s2 => out_distance = 0)
        /\ (in_s1 = <<>> => out_distance = Len(in_s2))

\* a longer first string that needs a substitution as well as deletions,
\* one of them between a letter and its capital
C18_Witness ==
    /\ Measured
    /\ Len(in_s1) > Len(in_s2)
    /\ Len(in_s2) > 0
    /\ out_distance > Len(in_s1) - Len(in_s2)
    /\ \E i \in 1..Len(in_s1) : in_s1[i] = "A"
    /\ \A j \in 1..Len(in_s2) : in_s2[j] = "a"

\* C19: levenshtein_distance is symmetric: distance(a, b) = distance(b, a)
\* for all strings, although the rows are sized by the second argument.
C19_Symmetric ==
    Measured => out_distance = levenshtein_distance(in_s2, in_s1)

\* a shorter first string: the rows are longer than the number of passes
C19_Witness ==
    /\ Measured
    /\ Len(in_s1) > 0
    /\ Len(in_s1) < Len(in_s2)
    /\ out_distance > 0
    /\ out_distance = levenshtein_distance(in_s2, in_s1)

\* C20: levenshtein_ratio(a, b) is 1 - distance(a, b) / max(len(a), len(b)),
\* lies in [0, 1], and is 1.0 whenever a = b, both empty included.
C20_RatioFormulaAndRange ==
    RatioMeasured =>
        /\ out_ratio[2] > 0
        /\ \/ Len(in_s1) = 0 /\ Len(in_s2) = 0
           \/ \E max_len \in {Len(in_s1), Len(in_s2)} :
                  /\ max_len >= Len(in_s1)
                  /\ max_len >= Len(in_s2)
                  /\ FEq(out_ratio, Frac(max_len - out_distance, max_len))
        /\ FGeq(out_ratio, Zero)
        /\ FGeq(One, out_ratio)
        /\ (in_s1 = in_s2 => FEq(out_ratio, One))

\* a ratio strictly between 0 and 1 for strings of different lengths
C20_Witness ==
    /\ RatioMeasured
    /\ Len(in_s1) < Len(in_s2)
    /\ FGt(out_ratio, Zero)
    /\ FGt(One, out_ratio)

\* the ratio of two empty strings
C20_BothEmpty ==
    /\ RatioMeasured
    /\ in_s1 = <<>>
    /\ in_s2 = <<>>
    /\ out_ratio = One

----------------------------------------------------------------------------
(* Properties of BM25Ranker.rank_pages and of the page preselection *)

\* build took all the pages without a call of rank_pages
TookAllPages ==
    call = "build" /\ pc = "ranked" /\ Len(in_pages) <= in_top_k[1]

\* rank_pages has returned, called directly or by build
Ranked == pc = "ranked" /\ call \in {"rank_pages", "build"} /\ ~TookAllPages

\* the score of the page of index idx
ScoreOf(idx) == out_scores[idx + 1]

\* score > 0.1 * max_score
OverThreshold(score, max_score) == 10 * score > max_score

\* the indices of the pages whose score is over the threshold
Survivors ==
    IF out_scores = <<>> THEN {}
    ELSE {idx \in 0..(Len(in_pages) - 1) :
             OverThreshold(ScoreOf(idx), MaxOf(out_scores))}

\* the result is made of the n best survivors
FirstOfSurvivors(n) ==
    /\ Len(out_ranked) = n
    /\ Range(out_ranked) \subseteq Survivors
    /\ \A idx \in Survivors \ Range(out_ranked) :
           \A k \in 1..Len(out_ranked) : ScoreOf(out_ranked[k]) >= ScoreOf(idx)

\* C12: rank_pages returns indices of range(len(pages)), none of them twice,
\* by descending score: each page's score is >= the score of the next.
C12_SubsetDistinctDescending ==
    Ranked =>
        /\ \A k \in 1..Len(out_ranked) :
               out_ranked[k] \in 0..(Len(in_pages) - 1)
        /\ \A j, k \in 1..Len(out_ranked) :
               j # k => out_ranked[j] # out_ranked[k]
        /\ \A k \in 1..(Len(out_ranked) - 1) :
               ScoreOf(out_ranked[k]) >= ScoreOf(out_ranked[k + 1])

\* a later page ranked before an earlier page of lower score
C12_Witness ==
    /\ Ranked
    /\ call = "rank_pages"
    /\ Len(out_ranked) = 2
    /\ out_ranked[1] > out_ranked[2]
    /\ ScoreOf(out_ranked[1]) > ScoreOf(out_ranked[2])

\* C13 as stated: rank_pages returns list(range(len(pages))), without
\* scoring and without cutoff, whenever len(pages) <= top_k.
C13_AsStated ==
    (pc = "ranked" /\ call = "rank_pages" /\ in_top_k # NoneInt
        /\ Len(in_pages) <= in_top_k[1]) =>
        out_ranked = AllPages(in_pages)

\* C13: VeritasCrewBuilder.build takes list(range(len(pages))), all pages
\* in their order, without a call of rank_pages (no score is computed),
\* whenever len(pages) <= config.BM25_TOP_K; rank_pages has no such
\* shortcut.
C13_BuildTakesAllPages ==
    TookAllPages =>
        /\ out_ranked = AllPages(in_pages)
        /\ out_scores = <<>>

\* two pages within the configured limit, the first without any term
C13_Witness ==
    /\ TookAllPages
    /\ in_top_k = <<2>>
    /\ in_pages = <<PageDigits, PageBoth>>
    /\ out_ranked = <<0, 1>>

\* C14: with threshold = 0.1 * max(scores), no page whose score is
\* <= threshold is in the result of rank_pages, and every page whose score
\* is > threshold is in it when no top_k truncation applies.
C14_RelativeCutoff ==
    (Ranked /\ out_scores # <<>>) =>
        /\ \A k \in 1..Len(out_ranked) :
               OverThreshold(ScoreOf(out_ranked[k]), MaxOf(out_scores))
        /\ (in_top_k = NoneInt \/ in_top_k[1] >= Cardinality(Survivors)) =>
               Range(out_ranked) = Survivors

\* no query term is known: every score is 0, the threshold is 0 and no
\* page is in the result
C14_Witness ==
    /\ Ranked
    /\ in_top_k = NoneInt
    /\ Len(out_scores) = 2
    /\ \A i \in 1..Len(out_scores) : out_scores[i] = 0
    /\ out_ranked = <<>>

\* pages over the threshold, all in the result
C14_AllOver ==
    /\ Ranked
    /\ in_top_k = NoneInt
    /\ Len(out_scores) = 2
    /\ out_scores[1] # out_scores[2]
    /\ Len(out_ranked) = 2

\* C15 as stated: with a top_k, rank_pages returns all survivors of the
\* cutoff if they are at most top_k, otherwise the first top_k entries of
\* the filtered ranking, and never more than top_k entries.
C15_AsStated ==
    (Ranked /\ call = "rank_pages" /\ in_top_k # NoneInt) =>
        /\ IF Cardinality(Survivors) <= in_top_k[1]
           THEN FirstOfSurvivors(Cardinality(Survivors))
           ELSE FirstOfSurvivors(in_top_k[1])
        /\ Len(out_ranked) <= in_top_k[1]

\* C15: with a top_k >= 0, rank_pages returns all survivors of the cutoff
\* if they are at most top_k, otherwise the first top_k entries of the
\* filtered ranking, and never more than top_k entries; with a top_k < 0 it
\* returns the filtered ranking without its last -top_k entries.
C15_TopKTruncation ==
    (Ranked /\ in_top_k # NoneInt) =>
        IF in_top_k[1] >= 0
        THEN /\ IF Cardinality(Survivors) <= in_top_k[1]
                THEN FirstOfSurvivors(Cardinality(Survivors))
                ELSE FirstOfSurvivors(in_top_k[1])
             /\ Len(out_ranked) <= in_top_k[1]
        ELSE FirstOfSurvivors(Max2(0, Cardinality(Survivors) + in_top_k[1]))

\* two survivors and a top_k of 1
C15_Witness ==
    /\ Ranked
    /\ call = "rank_pages"
    /\ in_top_k = <<1>>
    /\ Cardinality(Survivors) = 2
    /\ Len(out_ranked) = 1
    /\ ScoreOf(out_ranked[1]) = MaxOf(out_scores)

\* a negative top_k
C15_NegativeTopK ==
    /\ Ranked
    /\ in_top_k = <<-1>>
    /\ Cardinality(Survivors) = 2
    /\ Len(out_ranked) = 1

\* fit has run on in_pages in the last call
FitRan ==
    \/ call = "fit" /\ pc = "fitted"
    \/ call = "rank_pages" /\ pc \in {"ranked", "raised"}

C17_NeverRaises == pc # "raised"

----------------------------------------------------------------------------
(* Properties of the BM25+ page score and of _expand_query *)

MaxTermFreq == 4

\* rank_pages has scored the pages of in_pages
Scored == Ranked /\ out_scores # <<>>

\* rank_pages has expanded the query, and returned or raised
Expanded ==
    /\ call \in {"rank_pages", "build"}
    /\ pc \in {"ranked", "raised"}
    /\ in_pages # <<>>
    /\ ~TookAllPages

\* the terms of page idx
PageTerms(idx) == Tokenized(in_pages)[idx + 1]

\* the score the ranker in its present state gives to a page of the length
\* of page idx with the terms page_terms
ScoreWith(idx, page_terms, query_terms) ==
    _calculate_page_score(page_terms, query_terms, doc_lens[idx + 1],
                          avg_doc_len, idf)

\* what one occurrence of term in the query adds to the score of page idx
TermContribution(idx, term) == ScoreWith(idx, PageTerms(idx), <<term>>)

\* the positions of page idx that hold no term of the query
FreePositions(idx) ==
    {p \in 1..Len(PageTerms(idx)) : PageTerms(idx)[p] \notin Range(out_expanded)}

\* page idx with term in the place of the term at position p
OneMore(idx, p, term) == [PageTerms(idx) EXCEPT ![p] = term]

KnownQueryTerms == Range(out_expanded) \cap DOMAIN idf

PageIndices == 0..(Len(in_pages) - 1)

\* C21: for a query term of the index, one more occurrence of the term on a
\* page, its length and everything else equal, never lowers the score of
\* the page; the term score never decreases in the frequency, and a
\* frequency >= 1 scores at least as high as the frequency 0.
C21_MonotoneInTermFrequency ==
    Scored =>
        \A idx \in PageIndices : \A term \in KnownQueryTerms :
            /\ \A p \in FreePositions(idx) :
                   ScoreWith(idx, OneMore(idx, p, term), out_expanded)
                       >= out_scores[idx + 1]
            /\ \A tf \in 0..MaxTermFreq :
                   /\ Scaled(idf[term],
                             TermFactor(tf + 1,
                                        FDiv(Frac(doc_lens[idx + 1], 1),
                                             avg_doc_len)))
                          >= Scaled(idf[term],
                                    TermFactor(tf,
                                               FDiv(Frac(doc_lens[idx + 1], 1),
                                                    avg_doc_len)))
                   /\ Scaled(idf[term],
                             TermFactor(tf + 1,
                                        FDiv(Frac(doc_lens[idx + 1], 1),
                                             avg_doc_len)))
                          >= Scaled(idf[term],
                                    TermFactor(0,
                                               FDiv(Frac(doc_lens[idx + 1], 1),
                                                    avg_doc_len)))

\* a page without the term whose score rises when the term takes the place
\* of a term that is not in the query
C21_Witness ==
    /\ Scored
    /\ \E idx \in PageIndices : \E term \in KnownQueryTerms :
           /\ TermFreq(PageTerms(idx), term) = 0
           /\ \E p \in FreePositions(idx) :
                  ScoreWith(idx, OneMore(idx, p, term), out_expanded)
                      > out_scores[idx + 1]

\* C22: in every rank_pages call, also on a ranker that has ranked another
\* corpus, a query term that occurs on no page of the corpus of this call
\* adds 0 to the score of every page.
C22_AbsentTermAddsNothing ==
    Scored =>
        \A idx \in PageIndices : \A term \in Range(out_expanded) :
            term \notin TermsOf(Tokenized(in_pages)) =>
                TermContribution(idx, term) = 0

\* the number of occurrences of term in the expanded query
Occurrences(term) == TermFreq(out_expanded, term)

\* the matching occurrences of a query term: those of the key of the table
MatchingOccurrences(query_terms) ==
    Cardinality({q \in 1..Len(query_terms) :
                    query_terms[q] \in DOMAIN expansion_map})

\* the values of the synonym table
ExpansionValues ==
    UNION {Range(expansion_map[key]) : key \in DOMAIN expansion_map}

\* C24: _expand_query is additive only: its result starts with the query
\* terms, unchanged and in order, every further element is a value of the
\* synonym table, appended once per matching occurrence of a query term,
\* and the list of the caller is not modified.
C24_ExpansionAdditive ==
    Expanded =>
        /\ Len(out_expanded) >= Len(Preprocessed[in_query])
        /\ SubSeq(out_expanded, 1, Len(Preprocessed[in_query]))
               = Preprocessed[in_query]
        /\ \A q \in (Len(Preprocessed[in_query]) + 1)..Len(out_expanded) :
               out_expanded[q] \in ExpansionValues
        /\ \A value \in ExpansionValues :
               Cardinality({q \in (Len(Preprocessed[in_query]) + 1)
                                      ..Len(out_expanded) :
                               out_expanded[q] = value})
                   = MatchingOccurrences(Preprocessed[in_query])
        /\ out_query_terms = Preprocessed[in_query]

\* a query with two occurrences of rgpd: each adds the three synonyms
C24_Witness ==
    /\ Expanded
    /\ MatchingOccurrences(out_query_terms) = 2
    /\ Len(out_query_terms) = 5
    /\ Len(out_expanded) = 11

RECURSIVE SumOfContributions(_, _)
\* the sum over the terms of occurrences times single contribution
SumOfContributions(terms, idx) ==
    IF terms = {} THEN 0
    ELSE LET term == CHOOSE t \in terms : TRUE
         IN Occurrences(term) * TermContribution(idx, term)
                + SumOfContributions(terms \ {term}, idx)

\* C25: the page score is additive over the occurrences of query terms: a
\* term that is m times in the expanded query adds m times its
\* single-occurrence term score, and the score of a page is the sum of the
\* contributions of all occurrences.
C25_AdditiveOverOccurrences ==
    Scored =>
        \A idx \in PageIndices :
            /\ out_scores[idx + 1]
                   = SumOfContributions(Range(out_expanded), idx)
            /\ \A term \in Range(out_expanded) :
                   ScoreWith(idx, PageTerms(idx),
                             [q \in 1..Occurrences(term) |-> term])
                       = Occurrences(term) * TermContribution(idx, term)

\* gdpr is three times in the expanded query and on a page of the corpus
C25_Witness ==
    /\ Scored
    /\ Occurrences(gdpr) = 3
    /\ \E idx \in PageIndices :
           /\ TermFreq(PageTerms(idx), gdpr) > 0
           /\ out_scores[idx + 1] > 3 * TermContribution(idx, gdpr)
           /\ TermContribution(idx, gdpr) > 0

\* C29: on a corpus of non-zero average length and with top_k absent or
\* >= 1, the result of rank_pages is non-empty and starts with a page of
\* maximal score whenever a term of the expanded query is in the IDF table:
\* every such term adds a strictly positive amount to every page; the result
\* is empty exactly when every page scores 0.
C29_NonEmptyWhenTermKnown ==
    (Scored /\ (in_top_k = NoneInt \/ in_top_k[1] >= 1)) =>
        /\ \A idx \in PageIndices : \A term \in KnownQueryTerms :
               TermContribution(idx, term) > 0
        /\ KnownQueryTerms # {} =>
               /\ out_ranked # <<>>
               /\ ScoreOf(out_ranked[1]) = MaxOf(out_scores)
        /\ out_ranked = <<>> <=>
               \A idx \in PageIndices : out_scores[idx + 1] = 0

\* a page that holds no term of the query and is in the result all the same
C29_Witness ==
    /\ Scored
    /\ in_top_k = NoneInt
    /\ KnownQueryTerms # {}
    /\ \E idx \in PageIndices :
           /\ \A term \in Range(out_expanded) :
                  TermFreq(PageTerms(idx), term) = 0
           /\ PageTerms(idx) # <<>>
           /\ idx \in Range(out_ranked)
    /\ Len(out_ranked) = 2
    /\ ScoreOf(out_ranked[1]) > ScoreOf(out_ranked[2])

\* the scores a new ranker gives to the pages of in_pages
NewRankerScores ==
    ScoresOf(Tokenized(in_pages), _expand_query(Preprocessed[in_query]),
             [i \in 1..Len(in_pages) |-> Len(Tokenized(in_pages)[i])],
             Frac(SumSeq([i \in 1..Len(in_pages) |->
                             Len(Tokenized(in_pages)[i])]),
                  Len(in_pages)),
             _calculate_idf(<<>>, TermsOf(Tokenized(in_pages)),
                            TermDocFreqs(Tokenized(in_pages)),
                            Len(in_pages)))

\* the lists a new ranker may return for in_pages, in_query and in_top_k
NewRankerResults ==
    {TopK(Filtered(ranked_indices, NewRankerScores), in_top_k) :
        ranked_indices \in Argsort(NewRankerScores)}

\* C30: the result of rank_pages(pages, query, top_k) is a function of its
\* three arguments: on a ranker that has ranked other corpora it is the list
\* a new ranker returns.
C30_SameAsNewRanker ==
    (pc = "ranked" /\ call = "rank_pages" /\ in_pages # <<>>) =>
        out_ranked \in NewRankerResults

----------------------------------------------------------------------------
(* Properties of the stages of answer_question *)

\* the dictionary returned when json.loads raised JSONDecodeError and the
\* outer except caught it
JsonErrorResult == ErrorResult("not_json")

ResultKeys ==
    {"question", "answer", "raw_answer", "source_sentences",
     "alignment_details", "source_pages"}

\* answer_question is over
Finished == pc \notin {"page_selection", "sentence_filter", "generation"}

\* C26: answer_question never propagates an exception: whatever the build,
\* the kickoffs or the generator raise or return, the call ends by
\* returning a dictionary with the six keys.
C26_AlwaysReturnsResult ==
    (call = "answer_question" /\ Finished) =>
        /\ pc # "raised"
        /\ DOMAIN result = ResultKeys

\* C27: the stages run in the order page selection, sentence filter,
\* generation, alignment: the filter runs only after a non-empty page
\* selection, the generator and align_response only after a non-empty
\* sentence selection, each early exit returns its fixed answer with empty
\* raw_answer and alignment_details, and the alignment runs on whatever the
\* generation left as raw_answer, its failure text included.
C27_StagesInOrder ==
    call = "answer_question" =>
        /\ pc \in {"sentence_filter", "generation", "returned_no_sentence",
                   "returned_answer"} =>
               selected_pages_indices # <<>>
        /\ pc \in {"generation", "returned_answer"} =>
               selected_sentences # <<>>
        /\ pc # "returned_answer" =>
               /\ raw_answer = <<>>
               /\ alignment_results = <<>>
               /\ factual_answer = <<>>
        /\ pc \in {"page_selection", "returned_no_page", "raised"} =>
               selected_sentences = <<>>
        /\ pc = "returned_no_page" =>
               /\ result.answer = NoPageAnswer
               /\ result.raw_answer = <<>>
               /\ result.alignment_details = <<>>
        /\ pc = "returned_no_sentence" =>
               /\ result.answer = NoSentenceAnswer
               /\ result.raw_answer = <<>>
               /\ result.alignment_details = <<>>
        /\ pc = "returned_answer" =>
               /\ result.raw_answer = raw_answer
               /\ result.alignment_details =
                      align_response(raw_answer, selected_sentences,
                                     MIN_SIMILARITY_THRESHOLD, nltk_ok)
               /\ result.answer =
                      build_factual_response(result.alignment_details)

\* the generator raised and its failure text was aligned all the same
C27_Witness ==
    /\ pc = "returned_answer"
    /\ raw_answer = GeneratorFailure
    /\ Len(result.alignment_details) = 1
    /\ result.alignment_details[1].generated # <<>>

====
